---- MODULE Spec2Model ----
(***************************************************************************)
(* jackmidiola: JACK MIDI to OLA DMX bridge (src/midiola.cpp).             *)
(*                                                                         *)
(* The state is the set of globals of midiola.cpp, the 32 DMX buffers, the *)
(* position of main() / onJackProcess(), the event the callback fetched    *)
(* last and what it handed to StreamingClient::SendDmx.  The loop bound of *)
(* onJackProcess is JACK's: the loop may end after any number of events.   *)
(***************************************************************************)
EXTENDS Integers, Sequences, FiniteSets, TLC

\* ------------------------------------------------------------------ bounds
\* Total number of MIDI events delivered to the callback in one behaviour.
MaxEvents == 3

\* --------------------------------------------------------- program constants
MAX_MIDI_UNIVERSE == 32

MIDI_MODE_CC7 == 0
MIDI_MODE_CC14 == 1
MIDI_MODE_NRPN7 == 2
MIDI_MODE_NRPN14 == 3

MIDI_CMD_DATA_MSB == 6
MIDI_CMD_DATA_LSB == 38
MIDI_CMD_INC == 96
MIDI_CMD_DEC == 97
MIDI_CMD_NRPN_LSB == 98
MIDI_CMD_NRPN_MSB == 99

\* Status-byte command nibbles consulted by onJackProcess.
CMD_CC == 176
CMD_NOTE_ON == 144

\* ola::DmxBuffer holds DMX_UNIVERSE_SIZE slots.
DMX_UNIVERSE_SIZE == 512

\* ------------------------------------------------------ fixed-width helpers
U8(x) == x % 256
U16(x) == x % 65536

RECURSIVE BitAnd(_, _)
BitAnd(a, b) ==
    IF a = 0 \/ b = 0 THEN 0
    ELSE ((a % 2) * (b % 2)) + 2 * BitAnd(a \div 2, b \div 2)

RECURSIVE BitOr(_, _)
BitOr(a, b) ==
    IF a = 0 THEN b
    ELSE IF b = 0 THEN a
    ELSE (IF (a % 2) + (b % 2) > 0 THEN 1 ELSE 0) + 2 * BitOr(a \div 2, b \div 2)

Shl(a, n) == a * (2 ^ n)

\* --------------------------------------------------------------- input sets
Modes == {MIDI_MODE_CC7, MIDI_MODE_CC14, MIDI_MODE_NRPN7, MIDI_MODE_NRPN14}

\* Values given to -u on the command line.
UniverseBases == {1, 255}

\* Sets of channels (1..16) given to -x on the command line.
ExcludeOptions == {{}, {13}, {1, 13}}

\* Channel nibbles of the events delivered.
Channels == {0, 12}

\* Controller numbers delivered in Control-Change events, per configured mode.
Controllers(mode) ==
    IF mode = MIDI_MODE_CC7 THEN {5, 127}
    ELSE IF mode = MIDI_MODE_CC14 THEN {5, 37, 38, 65, 66}
    ELSE {MIDI_CMD_DATA_MSB, MIDI_CMD_DATA_LSB, MIDI_CMD_INC, MIDI_CMD_DEC,
          MIDI_CMD_NRPN_LSB, MIDI_CMD_NRPN_MSB}

\* Data-2 bytes (value / velocity) delivered.
Values == {4, 127}

\* Command nibbles delivered that the callback does not consult (note-off).
OtherCommands == {128}

\* Note numbers and velocities delivered in Note-On and Note-Off events.
Notes == {5}
Velocities == {127}

\* ------------------------------------------------------------------- state
VARIABLES
    pc,             \* "start": main before the blackout loop; "idle": between
                    \* cycles; "cycle": inside onJackProcess
    g_enableNote, g_enableCC, g_universeBase, g_universe, g_bufferIndex,
    g_mode, g_midiChannels, g_nrpnParam, g_nrpnVal, g_slot,
    excludeArgs,    \* the channels given to -x on the command line
    g_dmxBuffer,    \* the non-zero slots of the 32 buffers: <<buffer, slot>> -> byte
    nEvents,        \* events delivered so far
    ev,             \* the event the last loop iteration fetched
    tx,             \* SendDmx calls, in order, of the start-up loop of main
                    \* or of the last loop iteration of onJackProcess
    partial         \* <<buffer, slot>> written by an MSB phase and not yet
                    \* completed by the LSB phase of that slot

config == <<g_enableNote, g_enableCC, g_universeBase, g_mode, g_midiChannels,
            excludeArgs>>
session == <<g_universe, g_bufferIndex, g_nrpnParam, g_nrpnVal, g_slot>>
vars == <<pc, config, session, g_dmxBuffer, nEvents, ev, tx, partial>>

\* ------------------------------------------------------------ ola::DmxBuffer
EmptyBuffers == [x \in {} |-> 0]

Get(buf, b, s) == IF <<b, s>> \in DOMAIN buf THEN buf[<<b, s>>] ELSE 0

SetChannel(buf, b, s, v) ==
    IF s >= DMX_UNIVERSE_SIZE THEN buf
    ELSE IF v = 0 THEN [x \in (DOMAIN buf) \ {<<b, s>>} |-> buf[x]]
    ELSE [x \in (DOMAIN buf) \cup {<<b, s>>} |->
            IF x = <<b, s>> THEN v ELSE buf[x]]

\* Mutant of Send: the frame sent is always g_dmxBuffer[0].
SendBufferZero(universe, bufferIndex) == [universe |-> universe, buffer |-> 0]

\* SendDmx(universe, g_dmxBuffer[bufferIndex]): the frame sent is the content
\* the buffer has when the call is made.
Send(universe, bufferIndex) == [universe |-> universe, buffer |-> bufferIndex]

\* ------------------------------------------------------------ configuration
AllChannels == 0 .. 15

\* Mutant of ExcludeBit: the mask is built from 1 << chan.
ExcludeBitOffByOne(chan) == chan

\* -x chan: g_midiChannels &= ~(1 << (chan - 1))
ExcludeBit(chan) == chan - 1
ParseExclude(excluded) == AllChannels \ {ExcludeBit(chan) : chan \in excluded}

\* (1 << chan) & g_midiChannels
ChannelEnabled(chan) == chan \in g_midiChannels

Init ==
    /\ pc = "start"
    /\ g_mode \in Modes
    /\ g_universeBase \in {U8(u) : u \in UniverseBases}
    /\ g_universe = g_universeBase
    /\ g_bufferIndex = 0
    /\ g_enableCC \in BOOLEAN
    /\ g_enableNote \in BOOLEAN
    /\ excludeArgs \in ExcludeOptions
    /\ g_midiChannels = ParseExclude(excludeArgs)
    /\ g_nrpnParam = 0
    /\ g_nrpnVal = 0
    /\ g_slot = 0
    /\ g_dmxBuffer = EmptyBuffers
    /\ nEvents = 0
    /\ ev = [err |-> TRUE, status |-> 0, data1 |-> 0, data2 |-> 0]
    /\ tx = << >>
    /\ partial = {}

\* --------------------------------------------------------------------- main
\* The SendDmx call of iteration `universe` of the start-up loop.
BlackoutSend(universe) == Send(g_universe, g_bufferIndex)

Main ==
    /\ pc = "start"
    /\ g_enableCC' = (IF ~g_enableNote /\ ~g_enableCC THEN TRUE ELSE g_enableCC)
    /\ g_dmxBuffer' = [x \in {y \in DOMAIN g_dmxBuffer : y[1] # g_bufferIndex} |->
                           g_dmxBuffer[x]]
    /\ tx' = [i \in 1 .. MAX_MIDI_UNIVERSE |-> BlackoutSend(i - 1)]
    /\ pc' = "idle"
    /\ UNCHANGED <<g_enableNote, g_universeBase, g_mode, g_midiChannels,
                   excludeArgs, session, nEvents, ev, partial>>

\* ---------------------------------------------------------------- resolvers
\* cc7: g_universe = channel + g_universeBase (uint8_t)
Cc7Universe(channel) == U8(channel + g_universeBase)

\* cc7: val <<= 1 (uint8_t)
Cc7Value(val) == U8(Shl(val, 1))

Cc7(channel, cc, val) ==
    /\ g_universe' = Cc7Universe(channel)
    /\ g_bufferIndex' = channel
    /\ g_dmxBuffer' = SetChannel(g_dmxBuffer, g_bufferIndex', cc, Cc7Value(val))
    /\ tx' = <<Send(g_universe', g_bufferIndex')>>
    /\ partial' = partial \ {<<g_bufferIndex', cc>>}
    /\ UNCHANGED <<g_nrpnParam, g_nrpnVal, g_slot>>

\* cc14: g_slot = offset + base, with uint8_t offset = cc % 32 and
\* uint8_t base = channel * 32
Cc14Slot(channel, cc) == U16(U8(cc % 32) + U8(channel * 32))

\* cc14, LSB branch: bit 0 of curVal follows val > 63
Cc14Lsb(curVal, val) ==
    IF val > 63 THEN BitOr(curVal, 1) ELSE BitAnd(curVal, 254)

\* Mutant of Cc14Msb: the value is stored without the shift.
Cc14MsbNoShift(curVal, val) == U8(BitOr(BitAnd(curVal, 1), val))

\* cc14, MSB branch: curVal &= 0x01; curVal |= (val << 1)
Cc14Msb(curVal, val) == U8(BitOr(BitAnd(curVal, 1), Shl(val, 1)))

\* Mutant of Cc14Ignored: only the declared LSB group 32..63 is accepted.
Cc14IgnoredAbove63(cc) == cc > 63

\* cc14: if (cc > 65) return
Cc14Ignored(cc) == cc > 65

Cc14(channel, cc, val) ==
    IF Cc14Ignored(cc)
    THEN /\ tx' = << >>
         /\ UNCHANGED <<session, g_dmxBuffer, partial>>
    ELSE LET slot == Cc14Slot(channel, cc)
             curVal == Get(g_dmxBuffer, g_bufferIndex, slot)
         IN  /\ g_slot' = slot
             /\ IF cc > 31
                THEN /\ g_dmxBuffer' = SetChannel(g_dmxBuffer, g_bufferIndex, slot,
                                                  Cc14Lsb(curVal, val))
                     /\ tx' = <<Send(g_universe, g_bufferIndex)>>
                     /\ partial' = partial \ {<<g_bufferIndex, slot>>}
                ELSE /\ g_dmxBuffer' = SetChannel(g_dmxBuffer, g_bufferIndex, slot,
                                                  Cc14Msb(curVal, val))
                     /\ tx' = << >>
                     /\ partial' = partial \cup {<<g_bufferIndex, slot>>}
             /\ UNCHANGED <<g_universe, g_bufferIndex, g_nrpnParam, g_nrpnVal>>

\* case MIDI_CMD_NRPN_LSB: g_nrpnParam = (g_nrpnParam & 0x3f80) | val
NrpnParamLsb(param, val) == U16(BitOr(BitAnd(param, 16256), val))

\* Mutant of NrpnParamMsb: the value is shifted by 8 bits.
NrpnParamMsbShift8(param, val) == U16(BitOr(BitAnd(param, 127), Shl(val, 8)))

\* case MIDI_CMD_NRPN_MSB: g_nrpnParam = (g_nrpnParam & 0x7f) | (val << 7)
NrpnParamMsb(param, val) == U16(BitOr(BitAnd(param, 127), Shl(val, 7)))

\* g_universe = g_bufferIndex + g_universeBase (uint8_t)
NrpnUniverse(bufferIndex) == U8(bufferIndex + g_universeBase)

\* Mutant of NrpnAddress: re-addressing reloads g_nrpnVal from the slot.
NrpnAddressReloads(param) ==
    /\ g_nrpnParam' = param
    /\ g_slot' = param % DMX_UNIVERSE_SIZE
    /\ g_bufferIndex' = U8(param \div DMX_UNIVERSE_SIZE)
    /\ g_universe' = NrpnUniverse(g_bufferIndex')
    /\ g_nrpnVal' = Get(g_dmxBuffer, g_bufferIndex', g_slot')
    /\ tx' = << >>
    /\ UNCHANGED <<g_dmxBuffer, partial>>

\* The three assignments that follow every change of g_nrpnParam.
NrpnAddress(param) ==
    /\ g_nrpnParam' = param
    /\ g_slot' = param % DMX_UNIVERSE_SIZE
    /\ g_bufferIndex' = U8(param \div DMX_UNIVERSE_SIZE)
    /\ g_universe' = NrpnUniverse(g_bufferIndex')
    /\ tx' = << >>
    /\ UNCHANGED <<g_nrpnVal, g_dmxBuffer, partial>>

\* SetChannel(g_slot, value) followed by SendDmx, as every emitting NRPN case
\* does; `slot` is the value g_slot has at the call.
NrpnEmit(slot, value) ==
    /\ g_nrpnVal' = value
    /\ g_slot' = slot
    /\ g_dmxBuffer' = SetChannel(g_dmxBuffer, g_bufferIndex, slot, value)
    /\ tx' = <<Send(g_universe, g_bufferIndex)>>
    /\ partial' = partial \ {<<g_bufferIndex, slot>>}
    /\ UNCHANGED <<g_universe, g_bufferIndex, g_nrpnParam>>

NrpnNoChange ==
    /\ tx' = << >>
    /\ UNCHANGED <<session, g_dmxBuffer, partial>>

\* Mutant of NrpnCanInc: the increment is not guarded.
NrpnCanIncAlways(val) == TRUE

\* case MIDI_CMD_INC: if (g_nrpnVal < 255)
NrpnCanInc(val) == val < 255

\* case MIDI_CMD_DEC: if (g_nrpnVal > 0)
NrpnCanDec(val) == val > 0

\* nrpnCC7, case MIDI_CMD_DATA_MSB: g_nrpnVal = val << 1 (uint8_t)
Nrpn7DataMsb(val) == U8(Shl(val, 1))

NrpnCC7(channel, cc, val) ==
    CASE cc = MIDI_CMD_NRPN_LSB -> NrpnAddress(NrpnParamLsb(g_nrpnParam, val))
      [] cc = MIDI_CMD_NRPN_MSB -> NrpnAddress(NrpnParamMsb(g_nrpnParam, val))
      [] cc = MIDI_CMD_DATA_MSB -> NrpnEmit(g_slot, Nrpn7DataMsb(val))
      [] cc = MIDI_CMD_INC ->
            IF NrpnCanInc(g_nrpnVal) THEN NrpnEmit(g_slot, U8(g_nrpnVal + 1))
            ELSE NrpnNoChange
      [] cc = MIDI_CMD_DEC ->
            IF NrpnCanDec(g_nrpnVal)
            THEN NrpnEmit(g_nrpnParam % DMX_UNIVERSE_SIZE, U8(g_nrpnVal + 255))
            ELSE /\ g_slot' = g_nrpnParam % DMX_UNIVERSE_SIZE
                 /\ tx' = << >>
                 /\ UNCHANGED <<g_universe, g_bufferIndex, g_nrpnParam, g_nrpnVal,
                                g_dmxBuffer, partial>>
      [] OTHER -> NrpnNoChange

\* Mutant of Nrpn14DataMsb: bit 0 of the pending value is dropped.
Nrpn14DataMsbDropsBit0(cur, val) == U8(Shl(val, 1))

\* nrpnCC14, case MIDI_CMD_DATA_MSB: g_nrpnVal = (g_nrpnVal & 0x01) | (val << 1)
Nrpn14DataMsb(cur, val) == U8(BitOr(BitAnd(cur, 1), Shl(val, 1)))

\* nrpnCC14, case MIDI_CMD_DATA_LSB: bit 0 of g_nrpnVal follows val > 63
Nrpn14DataLsb(cur, val) ==
    IF val > 63 THEN BitOr(cur, 1) ELSE BitAnd(cur, 254)

NrpnCC14(channel, cc, val) ==
    CASE cc = MIDI_CMD_NRPN_LSB -> NrpnAddress(NrpnParamLsb(g_nrpnParam, val))
      [] cc = MIDI_CMD_NRPN_MSB -> NrpnAddress(NrpnParamMsb(g_nrpnParam, val))
      [] cc = MIDI_CMD_DATA_MSB ->
            /\ g_nrpnVal' = Nrpn14DataMsb(g_nrpnVal, val)
            /\ tx' = << >>
            /\ UNCHANGED <<g_universe, g_bufferIndex, g_nrpnParam, g_slot,
                           g_dmxBuffer, partial>>
      [] cc = MIDI_CMD_DATA_LSB -> NrpnEmit(g_slot, Nrpn14DataLsb(g_nrpnVal, val))
      [] cc = MIDI_CMD_INC ->
            IF NrpnCanInc(g_nrpnVal) THEN NrpnEmit(g_slot, U8(g_nrpnVal + 1))
            ELSE NrpnNoChange
      [] cc = MIDI_CMD_DEC ->
            IF NrpnCanDec(g_nrpnVal) THEN NrpnEmit(g_slot, U8(g_nrpnVal + 255))
            ELSE NrpnNoChange
      [] OTHER -> NrpnNoChange

\* ------------------------------------------------------------ onJackProcess
\* A 3-byte MIDI message as jack_midi_event_get delivers it.
Msg(cmd, chan, d1, d2) ==
    [err |-> FALSE, status |-> cmd + chan, data1 |-> d1, data2 |-> d2]

\* An event jack_midi_event_get failed to fetch (non-zero return).
Malformed == [err |-> TRUE, status |-> 0, data1 |-> 0, data2 |-> 0]

EventsOf(controllers) ==
    {Msg(CMD_CC, ch, k, v) : ch \in Channels, k \in controllers, v \in Values}
    \cup {Msg(CMD_NOTE_ON, ch, n, v) : ch \in Channels, n \in Notes, v \in Velocities}
    \cup {Msg(cmd, 0, n, v) : cmd \in OtherCommands, n \in Notes, v \in Velocities}

EventsCC7 == EventsOf(Controllers(MIDI_MODE_CC7))
EventsCC14 == EventsOf(Controllers(MIDI_MODE_CC14))
EventsNRPN == EventsOf(Controllers(MIDI_MODE_NRPN7))

\* The events delivered when the configured mode is `mode`.
Events(mode) ==
    IF mode = MIDI_MODE_CC7 THEN EventsCC7
    ELSE IF mode = MIDI_MODE_CC14 THEN EventsCC14
    ELSE EventsNRPN

\* cmd = midiEvent.buffer[0] & 0xf0
Cmd(e) == e.status - (e.status % 16)
\* chan = midiEvent.buffer[0] & 0x0f
Chan(e) == e.status % 16

\* The branch of the if / else-if chain an event takes.
IsCC(e) == g_enableCC /\ Cmd(e) = CMD_CC

\* Mutant of IsNote: Note-On is dispatched only when the mode is cc7.
IsNoteOnlyInCc7(e) ==
    ~IsCC(e) /\ g_enableNote /\ Cmd(e) = CMD_NOTE_ON /\ g_mode = MIDI_MODE_CC7

\* Mutant of IsNote: the Note listening flag is not consulted.
IsNoteIgnoresFlag(e) == ~IsCC(e) /\ Cmd(e) = CMD_NOTE_ON

IsNote(e) == ~IsCC(e) /\ g_enableNote /\ Cmd(e) = CMD_NOTE_ON

\* Mutant of LoopAfter: a malformed event ends the cycle.
LoopAbortsOnMalformed(e) == IF e.err THEN "idle" ELSE "cycle"

\* Where the callback is after the iteration that fetched e: `continue` on a
\* malformed event and the end of the loop body both go on with the loop.
LoopAfter(e) == "cycle"

\* One iteration of the for loop has fetched e (eventIndex < count).
Fetch(e) ==
    /\ pc = "cycle"
    /\ nEvents < MaxEvents
    /\ ev' = e
    /\ nEvents' = nEvents + 1
    /\ pc' = LoopAfter(e)
    /\ UNCHANGED config

\* `continue`, or no branch taken: the iteration ends without reaching a resolver.
Skip ==
    /\ tx' = << >>
    /\ UNCHANGED <<session, g_dmxBuffer, partial>>

\* JACK calls the process callback.
BeginCycle ==
    /\ pc = "idle"
    /\ pc' = "cycle"
    /\ UNCHANGED <<config, session, g_dmxBuffer, nEvents, ev, tx, partial>>

EventMalformed ==
    /\ Fetch(Malformed)
    /\ Skip

EventExcluded ==
    \E e \in Events(g_mode) :
        /\ Fetch(e)
        /\ IsCC(e) \/ IsNote(e)
        /\ ~ChannelEnabled(Chan(e))
        /\ Skip

EventCC7 ==
    /\ g_mode = MIDI_MODE_CC7
    /\ \E e \in Events(g_mode) :
        /\ Fetch(e)
        /\ IsCC(e) /\ ChannelEnabled(Chan(e))
        /\ Cc7(Chan(e), e.data1, e.data2)

EventCC14 ==
    /\ g_mode = MIDI_MODE_CC14
    /\ \E e \in Events(g_mode) :
        /\ Fetch(e)
        /\ IsCC(e) /\ ChannelEnabled(Chan(e))
        /\ Cc14(Chan(e), e.data1, e.data2)

EventNRPN7 ==
    /\ g_mode = MIDI_MODE_NRPN7
    /\ \E e \in Events(g_mode) :
        /\ Fetch(e)
        /\ IsCC(e) /\ ChannelEnabled(Chan(e))
        /\ NrpnCC7(Chan(e), e.data1, e.data2)

EventNRPN14 ==
    /\ g_mode = MIDI_MODE_NRPN14
    /\ \E e \in Events(g_mode) :
        /\ Fetch(e)
        /\ IsCC(e) /\ ChannelEnabled(Chan(e))
        /\ NrpnCC14(Chan(e), e.data1, e.data2)

EventNoteOn ==
    \E e \in Events(g_mode) :
        /\ Fetch(e)
        /\ IsNote(e) /\ ChannelEnabled(Chan(e))
        /\ Cc7(Chan(e), e.data1, e.data2)

EventOther ==
    \E e \in Events(g_mode) :
        /\ Fetch(e)
        /\ ~IsCC(e) /\ ~IsNote(e)
        /\ Skip

\* eventIndex = count: the loop ends and the callback returns 0.
EndCycle ==
    /\ pc = "cycle"
    /\ pc' = "idle"
    /\ UNCHANGED <<config, session, g_dmxBuffer, nEvents, ev, tx, partial>>

Next ==
    \/ Main
    \/ BeginCycle
    \/ EventMalformed
    \/ EventExcluded
    \/ EventCC7
    \/ EventCC14
    \/ EventNRPN7
    \/ EventNRPN14
    \/ EventNoteOn
    \/ EventOther
    \/ EndCycle

Spec == Init /\ [][Next]_vars

\* ------------------------------------------------------------------ claims
\* A loop iteration of onJackProcess happened in this step.
EventStep == nEvents' = nEvents + 1

\* e reached a resolver through the Control-Change branch.
HandledCC(e) == ~e.err /\ IsCC(e) /\ ChannelEnabled(Chan(e))

\* e reached cc7 through the Note-On branch.
HandledNote(e) == ~e.err /\ IsNote(e) /\ ChannelEnabled(Chan(e))

Bit0(val) == IF val > 63 THEN 1 ELSE 0

\* C1: in CC7 mode a Control-Change (c, k, v) on an enabled channel sets slot k
\* of frame c to 2*v (0..254) and transmits that frame to universe
\* c + universeBase.
C1_Cc7WritesAndSends ==
    (g_mode = MIDI_MODE_CC7 /\ HandledCC(ev)) =>
        LET c == Chan(ev)
            k == ev.data1
            v == ev.data2
        IN  /\ Get(g_dmxBuffer, c, k) = 2 * v
            /\ 2 * v \in 0 .. 254
            /\ tx = <<Send(c + g_universeBase, c)>>

\* C2: in CC14 mode, on channel 0, the MSB message (k, m) followed by the LSB
\* message (k + 32, l) leaves (m << 1) | (l > 63) in slot k; the MSB message
\* transmits nothing and the LSB message transmits exactly once.
C2_Cc14MsbThenLsb ==
    [][(/\ EventStep
        /\ g_mode = MIDI_MODE_CC14
        /\ HandledCC(ev) /\ Chan(ev) = 0 /\ ev.data1 \in 0 .. 31
        /\ HandledCC(ev') /\ Chan(ev') = 0 /\ ev'.data1 = ev.data1 + 32)
       => /\ Get(g_dmxBuffer', g_bufferIndex', ev.data1)
                = 2 * ev.data2 + Bit0(ev'.data2)
          /\ tx = << >>
          /\ Len(tx') = 1
          /\ tx'[1].buffer = g_bufferIndex']_vars

C2_Witness ==
    /\ g_mode = MIDI_MODE_CC14
    /\ ev = Msg(CMD_CC, 0, 37, 127)
    /\ Get(g_dmxBuffer, g_bufferIndex, 5) = 9
    /\ Len(tx) = 1

\* C3: in NRPN7 mode, once parameter p is addressed, DATA_MSB v sets
\* pendingValue to 2*v, writes it to slot p mod 512 of frame p div 512 and
\* transmits that frame to universe universeBase + (p div 512); a following INC
\* raises the slot to 2*v + 1 and transmits again.
C3_Nrpn7DataThenInc ==
    [][(/\ EventStep
        /\ g_mode = MIDI_MODE_NRPN7
        /\ HandledCC(ev) /\ HandledCC(ev'))
       => /\ (/\ ev.data1 \in {MIDI_CMD_NRPN_LSB, MIDI_CMD_NRPN_MSB}
              /\ ev'.data1 = MIDI_CMD_DATA_MSB)
             => LET p == g_nrpnParam
                    v == ev'.data2
                IN  /\ g_nrpnVal' = 2 * v
                    /\ Get(g_dmxBuffer', p \div 512, p % 512) = 2 * v
                    /\ tx' = <<Send(g_universeBase + (p \div 512), p \div 512)>>
          /\ (/\ ev.data1 = MIDI_CMD_DATA_MSB
              /\ ev'.data1 = MIDI_CMD_INC)
             => /\ Get(g_dmxBuffer', g_bufferIndex, g_slot) = 2 * ev.data2 + 1
                /\ Len(tx') = 1
                /\ tx' = tx]_vars

\* C4: in NRPN14 mode DATA_MSB v changes only pendingValue, to
\* (pendingValue & 1) | (v << 1), touches no frame and transmits nothing; the
\* DATA_LSB w that follows sets bit 0 of pendingValue iff w > 63, writes
\* pendingValue to the addressed slot and transmits the frame exactly once.
C4_Nrpn14DataMsbThenLsb ==
    [][(/\ EventStep
        /\ g_mode = MIDI_MODE_NRPN14
        /\ HandledCC(ev'))
       => /\ (ev'.data1 = MIDI_CMD_DATA_MSB)
             => /\ g_nrpnVal' = (g_nrpnVal % 2) + 2 * ev'.data2
                /\ tx' = << >>
                /\ UNCHANGED <<g_dmxBuffer, g_universe, g_bufferIndex,
                               g_nrpnParam, g_slot>>
          /\ (/\ ev'.data1 = MIDI_CMD_DATA_LSB
              /\ HandledCC(ev) /\ ev.data1 = MIDI_CMD_DATA_MSB)
             => /\ g_nrpnVal' = 2 * ev.data2 + Bit0(ev'.data2)
                /\ g_dmxBuffer' = SetChannel(g_dmxBuffer, g_bufferIndex, g_slot,
                                             g_nrpnVal')
                /\ Get(g_dmxBuffer', g_bufferIndex, g_slot) = g_nrpnVal'
                /\ tx = << >>
                /\ tx' = <<Send(g_universe, g_bufferIndex)>>
                /\ UNCHANGED <<g_universe, g_bufferIndex, g_nrpnParam, g_slot>>]_vars

C4_Witness ==
    /\ g_mode = MIDI_MODE_NRPN14
    /\ ev = Msg(CMD_CC, 0, MIDI_CMD_DATA_LSB, 127)
    /\ g_nrpnParam = 512
    /\ g_nrpnVal = 9
    /\ Get(g_dmxBuffer, 1, 0) = 9
    /\ tx = <<Send(g_universe, 1)>>

\* C5: in the NRPN modes, once NRPN_MSB a and NRPN_LSB b have both been
\* processed (either order, any enabled channels), parameter = 128*a + b,
\* bufferIndex = parameter div 512, slot = parameter mod 512 and
\* universe = bufferIndex + universeBase; neither message transmits.
C5_NrpnAddressing ==
    [][(/\ EventStep
        /\ g_mode \in {MIDI_MODE_NRPN7, MIDI_MODE_NRPN14}
        /\ HandledCC(ev) /\ HandledCC(ev')
        /\ {ev.data1, ev'.data1} = {MIDI_CMD_NRPN_LSB, MIDI_CMD_NRPN_MSB})
       => LET a == IF ev.data1 = MIDI_CMD_NRPN_MSB THEN ev.data2 ELSE ev'.data2
              b == IF ev.data1 = MIDI_CMD_NRPN_LSB THEN ev.data2 ELSE ev'.data2
          IN  /\ g_nrpnParam' = 128 * a + b
              /\ g_bufferIndex' = g_nrpnParam' \div 512
              /\ g_slot' = g_nrpnParam' % 512
              /\ g_universe' = g_bufferIndex' + g_universeBase
              /\ tx = << >>
              /\ tx' = << >>
              /\ UNCHANGED <<g_dmxBuffer, g_nrpnVal>>]_vars

\* C6: if channel n (1..16) is excluded on the command line, every event whose
\* channel nibble is n - 1 is ignored in every mode: no frame, no NRPN session
\* state and no addressing state changes, and nothing is transmitted.
C6_ExcludedChannelIgnored ==
    [][(/\ EventStep
        /\ ~ev'.err
        /\ \E n \in excludeArgs : Chan(ev') = n - 1)
       => /\ UNCHANGED <<g_dmxBuffer, g_nrpnParam, g_nrpnVal, g_universe,
                         g_bufferIndex, g_slot>>
          /\ tx' = << >>]_vars

C6_Witness ==
    /\ 13 \in excludeArgs
    /\ g_enableCC /\ g_enableNote
    /\ ev = Msg(CMD_NOTE_ON, 12, 5, 127)
    /\ g_dmxBuffer # EmptyBuffers
    /\ tx = << >>

\* C7: at startup, before any MIDI event, each of the 32 frames i = 0..31 is
\* zero-filled and transmitted exactly once, to universe universeBase + i.
C7_StartupBlackout ==
    (pc = "idle" /\ nEvents = 0) =>
        /\ g_dmxBuffer = EmptyBuffers
        /\ Len(tx) = MAX_MIDI_UNIVERSE
        /\ \A i \in 0 .. MAX_MIDI_UNIVERSE - 1 :
              /\ Cardinality({j \in 1 .. Len(tx) : tx[j].buffer = i}) = 1
              /\ \A j \in 1 .. Len(tx) :
                    tx[j].buffer = i => tx[j].universe = g_universeBase + i

\* C8: in the 14-bit modes no transmitted frame holds, in any slot, a value
\* written by an MSB-phase message whose completing LSB message for that slot
\* has not been processed.
C8_NoPartialTransmitted ==
    g_mode \in {MIDI_MODE_CC14, MIDI_MODE_NRPN14} =>
        \A j \in 1 .. Len(tx) : \A x \in partial : x[1] # tx[j].buffer

\* C9: in cc14 mode the MIDI channel selects the universe: a completed (LSB)
\* update on channel c is written to the frame of, and transmitted to, universe
\* universeBase + c, controllers 32..63 addressing slots 1..32 of that universe.
C9_Cc14ChannelIsUniverse ==
    (/\ g_mode = MIDI_MODE_CC14
     /\ HandledCC(ev)
     /\ ev.data1 \in 32 .. 63) =>
        LET c == Chan(ev)
            k == ev.data1 % 32
        IN  /\ tx = <<Send(g_universeBase + c, c)>>
            /\ Get(g_dmxBuffer, c, k) % 2 = Bit0(ev.data2)

\* C10: every transmission request carries universe = buffer index +
\* universeBase, computed without wrap-around, hence a universe >= 1.
C10_UniverseNoWrap ==
    \A j \in 1 .. Len(tx) :
        /\ tx[j].universe = tx[j].buffer + g_universeBase
        /\ tx[j].universe >= 1

\* C11: in CC14 mode, for channel c and controller k in 0..65, the slot read
\* and written is (k mod 32) + c*32, so distinct channels address disjoint
\* 32-slot blocks (channel 15: slots 480..511).
C11_Cc14SlotPerChannel ==
    (/\ g_mode = MIDI_MODE_CC14
     /\ HandledCC(ev)
     /\ ev.data1 \in 0 .. 65) =>
        g_slot = (ev.data1 % 32) + Chan(ev) * 32

\* C12: in the NRPN modes INC at pendingValue 255 and DEC at pendingValue 0
\* change no state and transmit nothing; otherwise pendingValue changes by
\* exactly 1, stays in 0..255, is written to the addressed slot, and exactly one
\* transmission occurs.
C12_IncDecSaturate ==
    [][(/\ EventStep
        /\ g_mode \in {MIDI_MODE_NRPN7, MIDI_MODE_NRPN14}
        /\ HandledCC(ev')
        /\ ev'.data1 \in {MIDI_CMD_INC, MIDI_CMD_DEC})
       => LET inc == ev'.data1 = MIDI_CMD_INC
              saturated == IF inc THEN g_nrpnVal = 255 ELSE g_nrpnVal = 0
          IN  IF saturated
              THEN /\ UNCHANGED <<g_nrpnVal, g_nrpnParam, g_universe,
                                  g_bufferIndex, g_slot, g_dmxBuffer>>
                   /\ tx' = << >>
              ELSE /\ g_nrpnVal' = (IF inc THEN g_nrpnVal + 1 ELSE g_nrpnVal - 1)
                   /\ g_nrpnVal' \in 0 .. 255
                   /\ Get(g_dmxBuffer', g_bufferIndex, g_slot) = g_nrpnVal'
                   /\ tx' = <<Send(g_universe, g_bufferIndex)>>
                   /\ UNCHANGED <<g_nrpnParam, g_universe, g_bufferIndex, g_slot>>]_vars

C12_Witness ==
    /\ g_mode \in {MIDI_MODE_NRPN7, MIDI_MODE_NRPN14}
    /\ HandledCC(ev)
    /\ ev.data1 = MIDI_CMD_INC
    /\ g_nrpnVal = 255
    /\ Get(g_dmxBuffer, g_bufferIndex, g_slot) = 255
    /\ tx = << >>

\* C13: a Control-Change on an enabled channel with CC listening enabled goes
\* to the resolver of the configured mode; a Note-On on an enabled channel with
\* Note listening enabled goes to the CC7 resolver (note as controller,
\* velocity as value) whatever the mode; every other event (another command,
\* or its listening flag disabled) changes no state and transmits nothing.
C13_Dispatch ==
    [][(EventStep /\ ~ev'.err)
       => LET c == ev'.status % 16
              cmd == ev'.status - c
              d1 == ev'.data1
              d2 == ev'.data2
              cc == cmd = CMD_CC /\ g_enableCC
              note == cmd = CMD_NOTE_ON /\ g_enableNote
          IN  /\ (cc /\ c \in g_midiChannels)
                 => CASE g_mode = MIDI_MODE_CC7 -> Cc7(c, d1, d2)
                      [] g_mode = MIDI_MODE_CC14 -> Cc14(c, d1, d2)
                      [] g_mode = MIDI_MODE_NRPN7 -> NrpnCC7(c, d1, d2)
                      [] g_mode = MIDI_MODE_NRPN14 -> NrpnCC14(c, d1, d2)
              /\ (note /\ c \in g_midiChannels) => Cc7(c, d1, d2)
              /\ (~cc /\ ~note)
                 => /\ UNCHANGED <<session, g_dmxBuffer>>
                    /\ tx' = << >>]_vars

C13_Witness ==
    /\ g_mode = MIDI_MODE_NRPN14
    /\ g_enableNote /\ 12 \in g_midiChannels
    /\ ev = Msg(CMD_NOTE_ON, 12, 5, 127)
    /\ g_bufferIndex = 12
    /\ g_nrpnParam = 512
    /\ Get(g_dmxBuffer, 12, 5) = 254
    /\ Len(tx) = 1

\* C14: a malformed event is skipped without aborting the cycle: it changes no
\* state and transmits nothing, and the callback stays in its loop, so a batch
\* has the effect of the same batch with the malformed events removed.
C14_MalformedSkipped ==
    [][(EventStep /\ ev'.err)
       => /\ UNCHANGED <<session, g_dmxBuffer, config>>
          /\ tx' = << >>
          /\ pc' = "cycle"]_vars

C14_Witness ==
    /\ ev = Malformed
    /\ nEvents >= 2
    /\ pc = "cycle"
    /\ g_dmxBuffer # EmptyBuffers
    /\ tx = << >>

ChangedSlots(before, after) ==
    {x \in (DOMAIN before) \cup (DOMAIN after) :
        Get(after, x[1], x[2]) # Get(before, x[1], x[2])}

\* C17: after start-up, in every mode, one MIDI event changes at most one slot
\* of at most one frame and issues at most one transmission; a transmission
\* carries the frame the event wrote to, and the other 31 frames are unchanged.
C17_OneFramePerEvent ==
    [][EventStep
       => LET changed == ChangedSlots(g_dmxBuffer, g_dmxBuffer')
          IN  /\ Cardinality(changed) <= 1
              /\ Len(tx') <= 1
              /\ (Len(tx') = 1)
                 => /\ tx'[1].buffer = g_bufferIndex'
                    /\ \A x \in changed : x[1] = tx'[1].buffer]_vars

C17_Witness ==
    /\ g_mode = MIDI_MODE_CC7
    /\ ev = Msg(CMD_CC, 12, 5, 127)
    /\ HandledCC(ev)
    /\ tx = <<Send(g_universe, 12)>>
    /\ Get(g_dmxBuffer, 12, 5) = 254
    /\ \E x \in DOMAIN g_dmxBuffer : x[1] = 0

\* C18: in every mode and with any CC / Note listening, every reachable state
\* has the buffer index in 0..31, the active slot in 0..511 and the NRPN
\* parameter in 0..16383, every stored slot and every transmitted frame is
\* inside the 32 x 512 storage, and addressing parameter 16383 resolves to
\* buffer index 31, slot 511.
C18_RangesHold ==
    /\ g_bufferIndex \in 0 .. (MAX_MIDI_UNIVERSE - 1)
    /\ g_slot \in 0 .. (DMX_UNIVERSE_SIZE - 1)
    /\ g_nrpnParam \in 0 .. (MAX_MIDI_UNIVERSE * DMX_UNIVERSE_SIZE - 1)
    /\ \A x \in DOMAIN g_dmxBuffer :
          /\ x[1] \in 0 .. (MAX_MIDI_UNIVERSE - 1)
          /\ x[2] \in 0 .. (DMX_UNIVERSE_SIZE - 1)
    /\ \A j \in 1 .. Len(tx) : tx[j].buffer \in 0 .. (MAX_MIDI_UNIVERSE - 1)
    /\ (/\ g_mode \in {MIDI_MODE_NRPN7, MIDI_MODE_NRPN14}
        /\ HandledCC(ev)
        /\ ev.data1 \in {MIDI_CMD_NRPN_LSB, MIDI_CMD_NRPN_MSB}
        /\ g_nrpnParam = MAX_MIDI_UNIVERSE * DMX_UNIVERSE_SIZE - 1)
       => /\ g_bufferIndex = MAX_MIDI_UNIVERSE - 1
          /\ g_slot = DMX_UNIVERSE_SIZE - 1

C18_Witness ==
    /\ g_mode \in {MIDI_MODE_NRPN7, MIDI_MODE_NRPN14}
    /\ g_nrpnParam = 16383
    /\ g_bufferIndex = 31
    /\ g_slot = 511
    /\ HandledCC(ev)
    /\ ev.data1 = MIDI_CMD_DATA_MSB
    /\ Get(g_dmxBuffer, 31, 511) # 0
    /\ tx = <<Send(g_universe, 31)>>

\* C19: in NRPN7 and NRPN14 modes, with any combination of CC and Note
\* listening, every reachable state has bufferIndex = parameter div 512 and
\* slot = parameter mod 512, also when Note-On events are interleaved with the
\* NRPN sequence.
C19_NrpnAddressInvariant ==
    (g_mode \in {MIDI_MODE_NRPN7, MIDI_MODE_NRPN14})
       => /\ g_bufferIndex = g_nrpnParam \div DMX_UNIVERSE_SIZE
          /\ g_slot = g_nrpnParam % DMX_UNIVERSE_SIZE

\* C20: in NRPN7 and NRPN14 modes g_nrpnVal is one accumulator shared by all
\* parameters: NRPN_LSB and NRPN_MSB leave g_nrpnVal and every frame unchanged
\* (no reload from the newly addressed slot), and after every transmission
\* issued by DATA_MSB, DATA_LSB, INC or DEC the addressed slot of the
\* transmitted frame equals g_nrpnVal, whatever it held before.
C20_SharedPendingValue ==
    [][(/\ EventStep
        /\ g_mode \in {MIDI_MODE_NRPN7, MIDI_MODE_NRPN14}
        /\ HandledCC(ev'))
       => /\ (ev'.data1 \in {MIDI_CMD_NRPN_LSB, MIDI_CMD_NRPN_MSB})
             => UNCHANGED <<g_nrpnVal, g_dmxBuffer>>
          /\ (/\ ev'.data1 \in {MIDI_CMD_DATA_MSB, MIDI_CMD_DATA_LSB,
                                MIDI_CMD_INC, MIDI_CMD_DEC}
              /\ Len(tx') >= 1)
             => \A j \in 1 .. Len(tx') :
                   Get(g_dmxBuffer', tx'[j].buffer, g_slot') = g_nrpnVal']_vars

C20_Witness ==
    /\ g_mode = MIDI_MODE_NRPN7
    /\ HandledCC(ev)
    /\ ev.data1 = MIDI_CMD_INC
    /\ g_nrpnParam = 127
    /\ g_nrpnVal = 9
    /\ Get(g_dmxBuffer, 0, 0) = 8
    /\ Get(g_dmxBuffer, 0, 127) = 9
    /\ tx = <<Send(g_universe, 0)>>

====
